---------------------------- MODULE Spec2Model ----------------------------
(***************************************************************************)
(* Session model of DocumentSummarizer.py: the Streamlit session state     *)
(* (messages, document_content, summary, file_processed), the three event  *)
(* handlers (Analyze button, chat input, Clear Chat button) and the pure   *)
(* helpers they call (process_document, get_document_summary,              *)
(* chat_with_document).                                                    *)
(*                                                                         *)
(* Python strings are sequences of one-character strings, so that len(),   *)
(* slicing, strip(), split(), lower() and startswith() are computed.       *)
(* A Python value that may be None is <<>> (None) or <<v>> (a value).      *)
(***************************************************************************)
EXTENDS Integers, Sequences, FiniteSets, TLC

VARIABLES
  messages,          \* st.session_state.messages
  document_content,  \* st.session_state.document_content
  summary,           \* st.session_state.summary
  file_processed,    \* st.session_state.file_processed
  backend_calls,     \* client.chat.completions.create calls of the last event
  errors,            \* st.error messages shown by the last event
  event              \* the last user event and its inputs

vars ==
  <<messages, document_content, summary, file_processed, backend_calls, errors, event>>

session ==
  <<messages, document_content, summary, file_processed>>

-----------------------------------------------------------------------------
(* Bounds *)

MaxTurns ==
  6

MaxOver ==
  1

-----------------------------------------------------------------------------
(* Python values *)

None ==
  <<>>

Some(v) ==
  <<v>>

Min(a, b) ==
  IF a <= b THEN a ELSE b

Max(a, b) ==
  IF a >= b THEN a ELSE b

\* s[:n] for n >= 0
SliceTo(s, n) ==
  SubSeq(s, 1, Min(n, Len(s)))

\* s[-n:] for n > 0
SliceLast(s, n) ==
  SubSeq(s, Max(1, Len(s) - n + 1), Len(s))

Whitespace ==
  {" ", "\n", "\t", "\r"}

\* len(s.strip()) > 0
strip_nonempty(s) ==
  \E i \in 1..Len(s) : s[i] \notin Whitespace

startswith_always(s, p) ==
  TRUE

\* s.startswith(p)
startswith(s, p) ==
  Len(s) >= Len(p) /\ SubSeq(s, 1, Len(p)) = p

UpperToLower ==
  [c \in {"A","B","C","D","E","F","G","H","I","J","K","L","M",
          "N","O","P","Q","R","S","T","U","V","W","X","Y","Z"} |->
     CASE c = "A" -> "a" [] c = "B" -> "b" [] c = "C" -> "c" [] c = "D" -> "d"
       [] c = "E" -> "e" [] c = "F" -> "f" [] c = "G" -> "g" [] c = "H" -> "h"
       [] c = "I" -> "i" [] c = "J" -> "j" [] c = "K" -> "k" [] c = "L" -> "l"
       [] c = "M" -> "m" [] c = "N" -> "n" [] c = "O" -> "o" [] c = "P" -> "p"
       [] c = "Q" -> "q" [] c = "R" -> "r" [] c = "S" -> "s" [] c = "T" -> "t"
       [] c = "U" -> "u" [] c = "V" -> "v" [] c = "W" -> "w" [] c = "X" -> "x"
       [] c = "Y" -> "y" [] c = "Z" -> "z"]

\* s.lower()
lower(s) ==
  [i \in 1..Len(s) |-> IF s[i] \in DOMAIN UpperToLower THEN UpperToLower[s[i]] ELSE s[i]]

\* s.split('.')[-1]
split_last(s) ==
  LET dots == {i \in 1..Len(s) : s[i] = "."}
      last == IF dots = {} THEN 0 ELSE CHOOSE i \in dots : \A j \in dots : j <= i
  IN  SubSeq(s, last + 1, Len(s))

RECURSIVE Concat(_)
\* "".join(parts)
Concat(parts) ==
  IF parts = <<>> THEN <<>> ELSE Head(parts) \o Concat(Tail(parts))

-----------------------------------------------------------------------------
(* String literals of the source *)

TRUNCATION_MARKER ==
  <<
     "\n", "\n", "[", "D", "o", "c", "u", "m", "e", "n", "t", " ", "t", "r", "u", "n",
     "c", "a", "t", "e", "d", " ", "f", "o", "r", " ", "a", "n", "a", "l", "y", "s",
     "i", "s", ".", ".", ".", "]"
  >>

SUMMARY_PROMPT_HEAD ==
  <<
     "A", "n", "a", "l", "y", "z", "e", " ", "t", "h", "e", " ", "f", "o", "l", "l",
     "o", "w", "i", "n", "g", " ", "d", "o", "c", "u", "m", "e", "n", "t", " ", "a",
     "n", "d", " ", "p", "r", "o", "v", "i", "d", "e", " ", "a", " ", "d", "e", "t",
     "a", "i", "l", "e", "d", " ", "s", "u", "m", "m", "a", "r", "y", " ", "w", "i",
     "t", "h", ":", "\n", "\n", "1", ".", " ", "*", "*", "K", "e", "y", " ", "H", "i",
     "g", "h", "l", "i", "g", "h", "t", "s", "*", "*", ":", " ", "L", "i", "s", "t",
     " ", "t", "h", "e", " ", "m", "a", "i", "n", " ", "p", "o", "i", "n", "t", "s",
     ",", " ", "f", "i", "n", "d", "i", "n", "g", "s", ",", " ", "a", "n", "d", " ",
     "i", "m", "p", "o", "r", "t", "a", "n", "t", " ", "i", "n", "f", "o", "r", "m",
     "a", "t", "i", "o", "n", "\n", "2", ".", " ", "*", "*", "I", "m", "p", "o", "r",
     "t", "a", "n", "t", " ", "M", "e", "t", "r", "i", "c", "s", "*", "*", ":", " ",
     "E", "x", "t", "r", "a", "c", "t", " ", "a", "l", "l", " ", "n", "u", "m", "b",
     "e", "r", "s", ",", " ", "p", "e", "r", "c", "e", "n", "t", "a", "g", "e", "s",
     ",", " ", "s", "t", "a", "t", "i", "s", "t", "i", "c", "s", ",", " ", "f", "i",
     "n", "a", "n", "c", "i", "a", "l", " ", "f", "i", "g", "u", "r", "e", "s", ",",
     " ", "a", "n", "d", " ", "q", "u", "a", "n", "t", "i", "t", "a", "t", "i", "v",
     "e", " ", "d", "a", "t", "a", "\n", "3", ".", " ", "*", "*", "D", "a", "t", "e",
     "s", "*", "*", ":", " ", "L", "i", "s", "t", " ", "a", "l", "l", " ", "d", "a",
     "t", "e", "s", " ", "m", "e", "n", "t", "i", "o", "n", "e", "d", " ", "w", "i",
     "t", "h", " ", "t", "h", "e", "i", "r", " ", "c", "o", "n", "t", "e", "x", "t",
     "\n", "\n", "F", "o", "r", "m", "a", "t", " ", "y", "o", "u", "r", " ", "r", "e",
     "s", "p", "o", "n", "s", "e", " ", "c", "l", "e", "a", "r", "l", "y", " ", "w",
     "i", "t", "h", " ", "t", "h", "e", "s", "e", " ", "t", "h", "r", "e", "e", " ",
     "s", "e", "c", "t", "i", "o", "n", "s", ".", "\n", "\n", "D", "o", "c", "u", "m",
     "e", "n", "t", ":", "\n"
  >>

SUMMARY_PROMPT_TAIL ==
  <<
     "\n"
  >>

SUMMARY_SYSTEM ==
  <<
     "Y", "o", "u", " ", "a", "r", "e", " ", "a", " ", "d", "o", "c", "u", "m", "e",
     "n", "t", " ", "a", "n", "a", "l", "y", "s", "i", "s", " ", "e", "x", "p", "e",
     "r", "t", " ", "w", "h", "o", " ", "e", "x", "t", "r", "a", "c", "t", "s", " ",
     "k", "e", "y", " ", "i", "n", "f", "o", "r", "m", "a", "t", "i", "o", "n", ",",
     " ", "m", "e", "t", "r", "i", "c", "s", ",", " ", "a", "n", "d", " ", "d", "a",
     "t", "e", "s", " ", "f", "r", "o", "m", " ", "d", "o", "c", "u", "m", "e", "n",
     "t", "s", "."
  >>

CHAT_SYSTEM_HEAD ==
  <<
     "Y", "o", "u", " ", "a", "r", "e", " ", "a", " ", "h", "e", "l", "p", "f", "u",
     "l", " ", "a", "s", "s", "i", "s", "t", "a", "n", "t", " ", "t", "h", "a", "t",
     " ", "a", "n", "s", "w", "e", "r", "s", " ", "q", "u", "e", "s", "t", "i", "o",
     "n", "s", " ", "a", "b", "o", "u", "t", " ", "a", " ", "d", "o", "c", "u", "m",
     "e", "n", "t", ".", " ", "B", "a", "s", "e", " ", "y", "o", "u", "r", " ", "a",
     "n", "s", "w", "e", "r", "s", " ", "o", "n", "l", "y", " ", "o", "n", " ", "t",
     "h", "e", " ", "d", "o", "c", "u", "m", "e", "n", "t", " ", "c", "o", "n", "t",
     "e", "n", "t", " ", "p", "r", "o", "v", "i", "d", "e", "d", ".", "\n", "\n", "D",
     "o", "c", "u", "m", "e", "n", "t", ":", "\n"
  >>

CHAT_ERROR_HEAD ==
  <<
     "E", "r", "r", "o", "r", ":", " "
  >>

SHEET_HEAD ==
  <<
     "\n", "\n", "=", "=", "=", " ", "S", "h", "e", "e", "t", ":", " "
  >>

SHEET_TAIL ==
  <<
     " ", "=", "=", "=", "\n"
  >>

-----------------------------------------------------------------------------
(* Text extraction *)

\* A file is [name, ok, err, parts]: its name, whether the format library
\* reads it, the exception text when it does not, and what the library
\* yields: pages (pdf), paragraphs (docx), the decoded text (txt), sheets
\* with their to_string rendering (excel).
Returned(text) ==
  [ret |-> Some(text), errs |-> <<>>]

Failed(msg, detail) ==
  [ret |-> None, errs |-> <<[msg |-> msg, detail |-> detail]>>]

extract_text_from_pdf(file) ==
  IF file.ok
    THEN Returned(Concat([i \in 1..Len(file.parts) |-> file.parts[i].text \o <<"\n">>]))
    ELSE Failed("Error reading PDF: ", file.err)

extract_text_from_docx(file) ==
  IF file.ok
    THEN Returned(Concat([i \in 1..Len(file.parts) |-> file.parts[i].text \o <<"\n">>]))
    ELSE Failed("Error reading DOCX: ", file.err)

extract_text_from_txt(file) ==
  IF file.ok
    THEN Returned(file.parts[1].text)
    ELSE Failed("Error reading TXT: ", file.err)

extract_text_from_excel(file) ==
  IF file.ok
    THEN Returned(Concat([i \in 1..Len(file.parts) |->
                    SHEET_HEAD \o file.parts[i].name \o SHEET_TAIL \o file.parts[i].text]))
    ELSE Failed("Error reading Excel: ", file.err)

process_document_any_extension(file) ==
  extract_text_from_txt(file)

process_document(file) ==
  LET file_extension == lower(split_last(file.name))
  IN  CASE file_extension = <<"p","d","f">> -> extract_text_from_pdf(file)
        [] file_extension \in {<<"d","o","c","x">>, <<"d","o","c">>} -> extract_text_from_docx(file)
        [] file_extension = <<"t","x","t">> -> extract_text_from_txt(file)
        [] file_extension \in {<<"x","l","s">>, <<"x","l","s","x">>} -> extract_text_from_excel(file)
        [] OTHER -> Failed("Unsupported file format", <<>>)

-----------------------------------------------------------------------------
(* Backend clients.  resp is what client.chat.completions.create does for  *)
(* the request: [ok |-> TRUE, val |-> completion text] or                  *)
(* [ok |-> FALSE, val |-> str(exception)].                                 *)

max_chars_summary ==
  12000

max_chars_chat ==
  10000

history_window ==
  8

truncate_for_summary_inclusive(content) ==
  SliceTo(content, max_chars_summary) \o
    (IF Len(content) >= max_chars_summary THEN TRUNCATION_MARKER ELSE <<>>)

truncate_for_summary(content) ==
  SliceTo(content, max_chars_summary) \o
    (IF Len(content) > max_chars_summary THEN TRUNCATION_MARKER ELSE <<>>)

get_document_summary(content, api_key, resp) ==
  LET truncated_content == truncate_for_summary(content)
      prompt == SUMMARY_PROMPT_HEAD \o truncated_content \o SUMMARY_PROMPT_TAIL
      call == [model |-> "gpt-4",
               messages |-> <<[role |-> "system", content |-> SUMMARY_SYSTEM],
                              [role |-> "user", content |-> prompt]>>,
               temperature |-> "0.3",
               max_tokens |-> 2000,
               api_key |-> api_key]
  IN  IF resp.ok
        THEN [ret |-> Some(resp.val), calls |-> <<call>>, errs |-> <<>>]
        ELSE [ret |-> None, calls |-> <<call>>,
              errs |-> <<[msg |-> "Error calling OpenAI API: ", detail |-> resp.val]>>]

chat_reply_bare(resp) ==
  resp.val

chat_reply(resp) ==
  IF resp.ok THEN resp.val ELSE CHAT_ERROR_HEAD \o resp.val

chat_with_document(question, doc, chat_history, api_key, resp) ==
  LET truncated_doc == SliceTo(doc, max_chars_chat)
      recent == SliceLast(chat_history, history_window)
      request == <<[role |-> "system", content |-> CHAT_SYSTEM_HEAD \o truncated_doc]>>
                 \o [i \in 1..Len(recent) |->
                       [role |-> recent[i].role, content |-> recent[i].content]]
                 \o <<[role |-> "user", content |-> question]>>
      call == [model |-> "gpt-4",
               messages |-> request,
               temperature |-> "0.7",
               max_tokens |-> 1000,
               api_key |-> api_key]
  IN  [ret |-> chat_reply(resp), calls |-> <<call>>]

-----------------------------------------------------------------------------
(* Event handlers *)

truthy_not_none(opt) ==
  opt # None

\* bool(x) of a Python value that is None or a string
truthy(opt) ==
  opt # None /\ opt[1] # <<>>

Error(msg) ==
  [msg |-> msg, detail |-> <<>>]

Rejected(msg) ==
  [messages |-> messages, document_content |-> document_content,
   summary |-> summary, file_processed |-> file_processed,
   calls |-> <<>>, errs |-> <<Error(msg)>>, resp |-> None]

\* Body of "if analyze_button:"; uploaded_file is None or Some(file).
analyze_result(uploaded_file, api_key, resp) ==
  IF uploaded_file = None THEN Rejected("Please upload a file first")
  ELSE IF api_key = <<>> THEN Rejected("Please enter your OpenAI API key")
  ELSE IF ~startswith(api_key, <<"s","k","-">>)
    THEN Rejected("Invalid API key format. It should start with 'sk-'")
  ELSE
    LET extraction == process_document(uploaded_file[1])
        content == extraction.ret
    IN  IF truthy(content) /\ strip_nonempty(content[1])
          THEN LET call == get_document_summary(content[1], api_key, resp)
               IN  IF truthy(call.ret)
                     THEN [messages |-> <<>>, document_content |-> content[1],
                           summary |-> call.ret, file_processed |-> TRUE,
                           calls |-> call.calls, errs |-> <<>>, resp |-> Some(resp)]
                     ELSE [messages |-> messages, document_content |-> content[1],
                           summary |-> summary, file_processed |-> file_processed,
                           calls |-> call.calls,
                           errs |-> call.errs \o <<Error("Failed to generate summary")>>,
                           resp |-> Some(resp)]
          ELSE [messages |-> messages, document_content |-> document_content,
                summary |-> summary, file_processed |-> file_processed,
                calls |-> <<>>,
                errs |-> extraction.errs \o <<Error("Could not extract text from document")>>,
                resp |-> None]

analyze_button_keep_chat(uploaded_file, api_key, resp) ==
  LET out == analyze_result(uploaded_file, api_key, resp)
  IN  /\ messages' = messages
      /\ document_content' = out.document_content
      /\ summary' = out.summary
      /\ file_processed' = out.file_processed
      /\ backend_calls' = out.calls
      /\ errors' = out.errs
      /\ event' = [op |-> "Analyze", file |-> uploaded_file, key |-> api_key,
                   question |-> <<>>, resp |-> out.resp]

analyze_button(uploaded_file, api_key, resp) ==
  LET out == analyze_result(uploaded_file, api_key, resp)
  IN  /\ messages' = out.messages
      /\ document_content' = out.document_content
      /\ summary' = out.summary
      /\ file_processed' = out.file_processed
      /\ backend_calls' = out.calls
      /\ errors' = out.errs
      /\ event' = [op |-> "Analyze", file |-> uploaded_file, key |-> api_key,
                   question |-> <<>>, resp |-> out.resp]

\* The chat input is rendered only when file_processed; it yields a
\* non-empty prompt when the user submits one.
chat_input(prompt, api_key, resp) ==
  /\ file_processed
  /\ prompt # <<>>
  /\ Len(messages) + 2 <= 2 * MaxTurns
  /\ IF api_key = <<>>
       THEN /\ errors' = <<Error("Please enter your OpenAI API key in the sidebar")>>
            /\ backend_calls' = <<>>
            /\ event' = [op |-> "AskQuestion", file |-> None, key |-> api_key,
                         question |-> prompt, resp |-> None]
            /\ UNCHANGED session
       ELSE LET with_user == Append(messages, [role |-> "user", content |-> prompt])
                response == chat_with_document(prompt, document_content, with_user,
                                               api_key, resp)
            IN  /\ messages' = Append(with_user,
                                      [role |-> "assistant", content |-> response.ret])
                /\ backend_calls' = response.calls
                /\ errors' = <<>>
                /\ event' = [op |-> "AskQuestion", file |-> None, key |-> api_key,
                             question |-> prompt, resp |-> Some(resp)]
                /\ UNCHANGED <<document_content, summary, file_processed>>

\* The Clear Chat History button is rendered only when file_processed and
\* the transcript is non-empty.
clear_chat ==
  /\ file_processed
  /\ messages # <<>>
  /\ messages' = <<>>
  /\ backend_calls' = <<>>
  /\ errors' = <<>>
  /\ event' = [op |-> "ClearChat", file |-> None, key |-> <<>>,
               question |-> <<>>, resp |-> None]
  /\ UNCHANGED <<document_content, summary, file_processed>>

-----------------------------------------------------------------------------
(* Inputs *)

KEY_EMPTY ==
  <<>>

KEY_VALID ==
  <<"s","k","-","a">>

KEY_NO_PREFIX ==
  <<"p","k","-","a">>

ApiKeys ==
  {KEY_EMPTY, KEY_VALID, KEY_NO_PREFIX}

Part(name, text) ==
  [name |-> name, text |-> text]

FILE_TXT ==
  [name |-> <<"a",".","t","x","t">>, ok |-> TRUE, err |-> <<>>,
   parts |-> <<Part(<<>>, <<"h","i">>)>>]

FILE_PDF ==
  [name |-> <<"v",".","2",".","P","D","F">>, ok |-> TRUE, err |-> <<>>,
   parts |-> <<Part(<<>>, <<"x">>), Part(<<>>, <<"y">>)>>]

FILE_XLSX ==
  [name |-> <<"s",".","x","l","s","x">>, ok |-> TRUE, err |-> <<>>,
   parts |-> <<Part(<<"S","1">>, <<"1"," ","2">>)>>]

FILE_CORRUPT ==
  [name |-> <<"c",".","d","o","c","x">>, ok |-> FALSE, err |-> <<"b","a","d">>,
   parts |-> <<>>]

FILE_CSV ==
  [name |-> <<"d",".","c","s","v">>, ok |-> TRUE, err |-> <<>>,
   parts |-> <<Part(<<>>, <<"1",",","2">>)>>]

FILE_BLANK ==
  [name |-> <<"e",".","p","d","f">>, ok |-> TRUE, err |-> <<>>,
   parts |-> <<Part(<<>>, <<" ">>)>>]

GoodFiles ==
  {FILE_TXT, FILE_PDF}

FailingFiles ==
  {FILE_CORRUPT, FILE_CSV, FILE_BLANK}

UploadedFiles ==
  {None} \cup {Some(f) : f \in GoodFiles \cup FailingFiles}

LongText(n, c) ==
  [i \in 1..n |-> IF i < max_chars_summary THEN c
                  ELSE IF i = max_chars_summary THEN "Z" ELSE "!"]

LongFile(n, c) ==
  [name |-> <<"l",".","t","x","t">>, ok |-> TRUE, err |-> <<>>,
   parts |-> <<Part(<<>>, LongText(n, c))>>]

LongFiles ==
  {LongFile(n, c) : n \in (max_chars_summary - MaxOver)..(max_chars_summary + MaxOver),
                    c \in {"a", "b"}}

LongUploads ==
  {Some(f) : f \in LongFiles \cup {FILE_XLSX, FILE_BLANK}}

Ok(text) ==
  [ok |-> TRUE, val |-> text]

Raise(text) ==
  [ok |-> FALSE, val |-> text]

SummaryResponses ==
  {Ok(<<"S">>), Ok(<<>>), Raise(<<"4","0","1">>)}

ChatResponses ==
  {Ok(<<"A">>), Raise(<<"4","0","1">>)}

Questions ==
  {<<"w","?">>}

-----------------------------------------------------------------------------
(* Specifications *)

Init ==
  /\ messages = <<>>
  /\ document_content = <<>>
  /\ summary = None
  /\ file_processed = FALSE
  /\ backend_calls = <<>>
  /\ errors = <<>>
  /\ event = [op |-> "Start", file |-> None, key |-> <<>>,
              question |-> <<>>, resp |-> None]

Analyze ==
  \E f \in UploadedFiles, k \in ApiKeys, r \in SummaryResponses : analyze_button(f, k, r)

AskQuestion ==
  \E q \in Questions, k \in ApiKeys, r \in ChatResponses : chat_input(q, k, r)

ClearChat ==
  clear_chat

Next ==
  \/ Analyze
  \/ AskQuestion
  \/ ClearChat

Spec ==
  Init /\ [][Next]_vars

\* Analyze on documents around the summarizer's character budget.
AnalyzeLong ==
  \E f \in LongUploads, k \in ApiKeys, r \in SummaryResponses : analyze_button(f, k, r)

NextLong ==
  AnalyzeLong

SpecLong ==
  Init /\ [][NextLong]_vars

-----------------------------------------------------------------------------
(* Properties *)

HasSkPrefix(k) ==
  Len(k) >= 3 /\ k[1] = "s" /\ k[2] = "k" /\ k[3] = "-"

ExtractionAttempted(e) ==
  e.op = "Analyze" /\ e.file # None /\ HasSkPrefix(e.key)

ExtractionFails(e) ==
  ExtractionAttempted(e) /\ e.file[1] \in FailingFiles

BackendFails(e) ==
  e.resp # None /\ ~e.resp[1].ok

UserMessage(text) ==
  [role |-> "user", content |-> text]

AssistantMessage(text) ==
  [role |-> "assistant", content |-> text]

ExpectedReply(r) ==
  IF r.ok THEN r.val ELSE <<"E","r","r","o","r",":"," ">> \o r.val

\* C1: whenever the stored document text is replaced, the transcript is
\* empty afterwards, so every message in the transcript was produced
\* against the document text the session currently holds.
C1_TranscriptFollowsDocument ==
  [][document_content' # document_content => messages' = <<>>]_vars

\* C2: an Analyze with an empty key or a key without the prefix sk- is
\* rejected with exactly one validation error, makes no backend call and
\* leaves document text, summary, transcript and chat-enabled flag unchanged.
C2_BadKeyRejected ==
  [][(event'.op = "Analyze" /\ ~HasSkPrefix(event'.key)) =>
       /\ backend_calls' = <<>>
       /\ UNCHANGED session
       /\ Len(errors') = 1
       /\ errors'[1].msg \in {"Please upload a file first",
                              "Please enter your OpenAI API key",
                              "Invalid API key format. It should start with 'sk-'"}]_vars

C2_Witness ==
  /\ event.op = "Analyze"
  /\ event.key = KEY_NO_PREFIX
  /\ event.file = Some(FILE_PDF)
  /\ file_processed
  /\ messages # <<>>
  /\ backend_calls = <<>>

\* C3: every backend call, summarize or chat, carries a key that is
\* non-empty and starts with sk-.
C3_CallsUseValidatedKey ==
  \A i \in DOMAIN backend_calls : HasSkPrefix(backend_calls[i].api_key)

\* C4 as stated: every AskQuestion handled in the chat-enabled state appends
\* the user message and then the assistant reply, changes nothing else in
\* the transcript and leaves chat enabled.
C4_EveryQuestionAppendsTwo ==
  [][event'.op = "AskQuestion" =>
       /\ Len(messages') = Len(messages) + 2
       /\ SubSeq(messages', 1, Len(messages)) = messages
       /\ messages'[Len(messages) + 1] = UserMessage(event'.question)
       /\ event'.resp # None
       /\ messages'[Len(messages) + 2] = AssistantMessage(ExpectedReply(event'.resp[1]))
       /\ file_processed']_vars

\* C4 amended: an AskQuestion with a non-empty key appends the user message
\* and then the assistant reply (the backend's answer, or "Error: " followed
\* by the exception text), changes nothing else and leaves chat enabled; an
\* AskQuestion with an empty key shows an error and changes nothing.
C4_QuestionWithKeyAppendsTwo ==
  [][event'.op = "AskQuestion" =>
       IF event'.key # <<>>
         THEN /\ event'.resp # None
              /\ messages' = messages \o
                   <<UserMessage(event'.question),
                     AssistantMessage(ExpectedReply(event'.resp[1]))>>
              /\ file_processed /\ file_processed'
              /\ UNCHANGED <<document_content, summary>>
         ELSE /\ UNCHANGED session
              /\ backend_calls' = <<>>
              /\ Len(errors') = 1]_vars

C4_Witness ==
  /\ event.op = "AskQuestion"
  /\ event.resp = Some(Raise(<<"4","0","1">>))
  /\ Len(messages) >= 4
  /\ messages[Len(messages)].role = "assistant"
  /\ messages[Len(messages) - 2].content = <<"A">>

\* C5: the request of an AskQuestion issued on a transcript of N messages is
\* one system message, the last min(8, N) transcript messages in order, and
\* the question as the final user message.
C5_RequestIsWindowThenQuestion ==
  [][(event'.op = "AskQuestion" /\ backend_calls' # <<>>) =>
       LET request == backend_calls'[1].messages
           N == Len(messages)
           window == SubSeq(messages, N - Min(8, N) + 1, N)
       IN  /\ Len(backend_calls') = 1
           /\ request[1].role = "system"
           /\ Tail(request) = window \o <<UserMessage(event'.question)>>]_vars

\* C6: an Analyze that fails at extraction or at summarization, on a session
\* holding a document, a summary and a transcript, leaves document text,
\* summary, transcript and chat-enabled flag unchanged.
C6_FailedAnalyzeKeepsState ==
  [][(/\ event'.op = "Analyze"
      /\ file_processed
      /\ messages # <<>>
      /\ (ExtractionFails(event') \/ BackendFails(event'))) =>
       UNCHANGED session]_vars

\* C7 as stated: whenever the backend returns a text to Analyze, the summary
\* is that text, the transcript is empty and chat is enabled.
C7_ReturnedSummaryStored ==
  [][(event'.op = "Analyze" /\ event'.resp # None /\ event'.resp[1].ok) =>
       /\ summary' = Some(event'.resp[1].val)
       /\ messages' = <<>>
       /\ file_processed']_vars

\* C7 amended: whenever the backend returns a non-empty text to Analyze, the
\* summary is exactly that text, the transcript is empty and chat is enabled.
C7_NonEmptySummaryStored ==
  [][(/\ event'.op = "Analyze"
      /\ event'.resp # None
      /\ event'.resp[1].ok
      /\ event'.resp[1].val # <<>>) =>
       /\ summary' = Some(event'.resp[1].val)
       /\ messages' = <<>>
       /\ file_processed'
       /\ errors' = <<>>]_vars

C7_Witness ==
  /\ event.op = "Analyze"
  /\ event.resp = Some(Ok(<<"S">>))
  /\ event.file = Some(FILE_PDF)
  /\ document_content = <<"x","\n","y","\n">>
  /\ summary = Some(<<"S">>)
  /\ messages = <<>>
  /\ file_processed

\* C8: the document text embedded in the summarize request is the first
\* 12,000 characters followed by the truncation marker when the text is
\* longer than 12,000 characters, and the text itself otherwise.
C8_SummaryInputTruncation ==
  (event.op = "Analyze" /\ backend_calls # <<>>) =>
    LET prompt == backend_calls[1].messages[2].content
        head == Len(SUMMARY_PROMPT_HEAD)
        embedded == SubSeq(prompt, head + 1, Len(prompt) - 1)
        text == document_content
    IN  /\ SubSeq(prompt, 1, head) = SUMMARY_PROMPT_HEAD
        /\ prompt[Len(prompt)] = "\n"
        /\ embedded = IF Len(text) > 12000
                        THEN SubSeq(text, 1, 12000) \o TRUNCATION_MARKER
                        ELSE text

C8_Witness ==
  /\ event.op = "Analyze"
  /\ backend_calls # <<>>
  /\ Len(document_content) > 12000
  /\ document_content[12000] = "Z"
  /\ Len(backend_calls[1].messages[2].content) =
       Len(SUMMARY_PROMPT_HEAD) + 12000 + Len(TRUNCATION_MARKER) + 1

\* C9 as stated: a failed extraction ends with no document held and chat
\* disabled, an error shown and no summarize call.
C9_FailedExtractionEmptiesSession ==
  [][ExtractionFails(event') =>
       /\ document_content' = <<>>
       /\ ~file_processed'
       /\ errors' # <<>>
       /\ backend_calls' = <<>>]_vars

\* C9 amended: a failed extraction leaves document text, summary, transcript
\* and chat-enabled flag as they were, shows the extraction error last and
\* makes no summarize call.
C9_FailedExtractionKeepsSession ==
  [][ExtractionFails(event') =>
       /\ UNCHANGED session
       /\ errors' # <<>>
       /\ errors'[Len(errors')].msg = "Could not extract text from document"
       /\ backend_calls' = <<>>]_vars

C9_Witness ==
  /\ ExtractionFails(event)
  /\ event.file = Some(FILE_CSV)
  /\ file_processed
  /\ document_content # <<>>
  /\ messages # <<>>

C10_Inv ==
  /\ file_processed =>
       /\ summary # None
       /\ summary[1] # <<>>
       /\ \E i \in 1..Len(document_content) : document_content[i] \notin {" ", "\n", "\t", "\r"}
  /\ messages # <<>> => file_processed

\* C10: chat enabled implies a non-empty summary is stored and the document
\* text is not blank; the transcript is non-empty only when chat is enabled;
\* and chat, once enabled, is never disabled.
C10_ChatEnabledInvariant ==
  []C10_Inv /\ [][file_processed => file_processed']_vars

C10_Witness ==
  /\ file_processed
  /\ messages # <<>>
  /\ event.op = "Analyze"
  /\ BackendFails(event)

=============================================================================
